---- MODULE Spec2Model ----
(***************************************************************************)
(* Model of the /scan request handler of server.py (barcode scanner        *)
(* service): request decoding, the debug persister, the ordered decode     *)
(* loop and the result / redirect formatter, run by the gunicorn workers.  *)
(*                                                                         *)
(* Text is a sequence of one-character strings, so that str.replace and    *)
(* bytes.decode are computed and not assumed.  The `image` field is a      *)
(* sequence of chunks: a comma, a data-URL header, or a base64 payload.    *)
(***************************************************************************)
EXTENDS Integers, Sequences, FiniteSets, TLC

VARIABLES environ, clock, pending, req, pc, should_redirect, image_data,
          image, timestamp, cnt, scan_idx, result, calls, persist_error,
          response, files, written

vars == <<environ, clock, pending, req, pc, should_redirect, image_data,
          image, timestamp, cnt, scan_idx, result, calls, persist_error,
          response, files, written>>

----------------------------------------------------------------------------
(* Bounds of the model                                                     *)

\* instants of the microsecond clock that datetime.now() reads
MaxClock == 2
\* comma-separated parts of an `image` string
MaxParts == 3

(* Program constants                                                       *)

\* gunicorn --workers 2
NumWorkers == 2

Workers == 1..NumWorkers

----------------------------------------------------------------------------
(* Text                                                                    *)

CodePlaceholder == <<"{", "c", "o", "d", "e", "}">>
ProtocolPlaceholder == <<"{", "p", "r", "o", "t", "o", "c", "o", "l", "}">>
HostPlaceholder == <<"{", "h", "o", "s", "t", "}">>

\* the default of os.getenv('REDIRECT_URL', ...)
DefaultRedirectUrl ==
    <<"h", "t", "t", "p", ":", "/", "/", "l", "o", "c", "a", "l", "h", "o", "s", "t",
      "/", "s", "e", "a", "r", "c", "h", "/">> \o CodePlaceholder

\* str.replace(old, new): every non-overlapping occurrence, leftmost first
RECURSIVE Replace(_, _, _)
Replace(s, old, new) ==
    IF Len(s) < Len(old) THEN s
    ELSE IF SubSeq(s, 1, Len(old)) = old
         THEN new \o Replace(SubSeq(s, Len(old) + 1, Len(s)), old, new)
         ELSE <<Head(s)>> \o Replace(Tail(s), old, new)

\* the code points this model's texts use
Chr(b) ==
    CASE b = 49 -> "1" [] b = 50 -> "2" [] b = 123 -> "{" [] b = 125 -> "}"
      [] b = 104 -> "h" [] b = 111 -> "o" [] b = 115 -> "s" [] b = 116 -> "t"
      [] b = 112 -> "p" [] b = 114 -> "r" [] b = 99 -> "c" [] b = 108 -> "l"
      [] OTHER -> "?"

\* bytes.decode('utf-8') on single-byte sequences: a byte >= 128 that starts
\* no multi-byte sequence raises UnicodeDecodeError
Utf8Valid(bytes) == \A i \in 1..Len(bytes) : bytes[i] < 128
Utf8Decode(bytes) == [i \in 1..Len(bytes) |-> Chr(bytes[i])]

----------------------------------------------------------------------------
(* Images and the external decoder                                         *)

\* images_to_scan, in order
images_to_scan == <<"original", "gray", "blurred", "adaptive_thresh", "sharpened">>

Variants == {"gray", "blurred", "adaptive_thresh", "sharpened"}

\* symbols pyzbar can report: payload bytes and symbol family
SymA == [data |-> <<49>>, type |-> "QRCODE"]
SymB == [data |-> <<50>>, type |-> "EAN13"]
SymHost == [data |-> <<123, 104, 111, 115, 116, 125>>, type |-> "QRCODE"]
SymProtocol == [data |-> <<123, 112, 114, 111, 116, 111, 99, 111, 108, 125>>, type |-> "CODE128"]
SymNonUtf8 == [data |-> <<255>>, type |-> "QRCODE"]

\* what one pyzbar.decode call can return
SymLists == {<<>>, <<SymA>>, <<SymB, SymA>>, <<SymNonUtf8>>}
RedirectSymLists == {<<SymHost>>, <<SymProtocol, SymA>>}

\* a decoded raster is known by what the decoder finds in each variant
Pictures == [Variants -> SymLists]
NoSymbols == [v \in Variants |-> <<>>]
RedirectPictures ==
    {[v \in Variants |-> IF v = w THEN l ELSE <<>>] : w \in Variants, l \in RedirectSymLists}

\* pyzbar.decode(image): the colour original is converted to gray by the library
Detect(img, variant) == IF variant = "original" THEN img["gray"] ELSE img[variant]

----------------------------------------------------------------------------
(* The `image` string                                                      *)

Comma == [k |-> "comma"]
\* "data:image/png;base64"
Header == [k |-> "hdr"]
\* a chunk whose characters are not a whole base64 string
BadChunk == [k |-> "bad"]
\* valid base64 of bytes that are no raster image
TextChunk == [k |-> "txt"]
PicChunk(p) == [k |-> "pic", pic |-> p]

\* ',' in s
HasComma(s) == \E i \in 1..Len(s) : s[i] = Comma

\* s.split(','): the parts between the commas
RECURSIVE Split(_)
Split(s) ==
    IF ~HasComma(s) THEN <<s>>
    ELSE LET i == CHOOSE j \in 1..Len(s) : s[j] = Comma /\ \A m \in 1..(j - 1) : s[m] # Comma
         IN <<SubSeq(s, 1, i - 1)>> \o Split(SubSeq(s, i + 1, Len(s)))

\* base64.b64decode(s): binascii.Error unless the characters form whole groups
B64Valid(s) == \A i \in 1..Len(s) : s[i].k \in {"txt", "pic"}
B64Decode(s) ==
    [i \in 1..Len(s) |-> IF s[i].k = "pic" THEN [k |-> "raster", pic |-> s[i].pic]
                                          ELSE [k |-> "octets"]]

\* cv2.imdecode(nparr, cv2.IMREAD_COLOR): the raster, or None when the bytes
\* are no image
IsImage(bytes) == Len(bytes) = 1 /\ bytes[1].k = "raster"
Imdecode(bytes) == bytes[1].pic

----------------------------------------------------------------------------
(* JSON bodies, as request.get_json() returns them                         *)

JNull == [kind |-> "null"]
JNumber(n) == [kind |-> "number", val |-> n]
JArray(a) == [kind |-> "array", val |-> a]
JObject(o) == [kind |-> "object", val |-> o]

\* `not data`
Falsy(data) ==
    CASE data.kind = "null" -> TRUE
      [] data.kind = "number" -> data.val = 0
      [] data.kind = "array" -> Len(data.val) = 0
      [] data.kind = "object" -> DOMAIN data.val = {}

\* `'image' in data` raises TypeError on a number
InRaises(data) == data.kind = "number"
\* `'image' in data`: a key of an object, an element of an array
HasImage(data) ==
    CASE data.kind = "object" -> "image" \in DOMAIN data.val
      [] data.kind = "array" -> \E i \in 1..Len(data.val) : data.val[i] = "image"
      [] OTHER -> FALSE

\* data.get('redirect', False)
GetRedirect(data) ==
    IF "redirect" \in DOMAIN data.val THEN data.val.redirect ELSE FALSE

\* data['image'].split(',')[1] if ',' in data['image'] else data['image']
ImageData(s) == IF HasComma(s) THEN Split(s)[2] ELSE s

----------------------------------------------------------------------------
(* Requests and configuration the model draws from                         *)

Http == <<"h", "t", "t", "p">>
Https == <<"h", "t", "t", "p", "s">>
RequestHost == <<"a", ".", "b">>

NoBody == JNull
NoRequest == [body |-> NoBody, scheme |-> Http, host |-> RequestHost]

PicGrayA == [v \in Variants |-> IF v = "gray" THEN <<SymA>> ELSE <<>>]
PartChunks == {BadChunk, TextChunk, PicChunk(NoSymbols), PicChunk(PicGrayA)}

\* p1,p2,...,pn
RECURSIVE Join(_)
Join(parts) ==
    IF Len(parts) = 1 THEN <<parts[1]>>
    ELSE <<parts[1], Comma>> \o Join(Tail(parts))

PartLists == UNION {[1..n -> PartChunks] : n \in 1..MaxParts}
ImageStrings ==
    {Join(ps) : ps \in PartLists} \cup {<<Header, Comma>> \o Join(ps) : ps \in PartLists}

BodylessBodies ==
    {JNull, JObject(<<>>), JObject([redirect |-> TRUE]), JNumber(0), JNumber(5),
     JArray(<<>>), JArray(<<"image">>), JArray(<<"frame">>)}
CommaBodies == {JObject([image |-> s]) : s \in ImageStrings}
ScanBodies ==
    {JObject([image |-> <<PicChunk(p)>>]) : p \in Pictures}
    \cup {JObject([image |-> <<PicChunk(p)>>, redirect |-> b]) :
             p \in Pictures \cup RedirectPictures, b \in BOOLEAN}

Requests ==
    {[body |-> b, scheme |-> Http, host |-> RequestHost] :
        b \in BodylessBodies \cup CommaBodies \cup ScanBodies}
    \cup {[body |-> JObject([image |-> <<PicChunk(p)>>, redirect |-> TRUE]),
           scheme |-> Https, host |-> RequestHost] : p \in RedirectPictures}

\* requests served side by side in the concurrency specification
ConcRequests ==
    {[body |-> b, scheme |-> Http, host |-> RequestHost] :
        b \in {JObject([image |-> <<PicChunk(NoSymbols)>>]),
                JObject([image |-> <<PicChunk(PicGrayA)>>, redirect |-> TRUE]),
                JObject([image |-> <<Header, Comma, PicChunk(PicGrayA)>>]),
                JObject([image |-> <<TextChunk>>])}}

XTemplate == <<"h", "t", "t", "p", ":", "/", "/", "x", "/">> \o CodePlaceholder
FullTemplate ==
    ProtocolPlaceholder \o <<":", "/", "/">> \o HostPlaceholder \o <<"/">> \o CodePlaceholder
ImagesDir == <<"/", "d">>

NoEnv == [n \in {} |-> <<>>]
Environs ==
    {r @@ d : r \in {NoEnv, "REDIRECT_URL" :> XTemplate, "REDIRECT_URL" :> FullTemplate},
              d \in {NoEnv, "IMAGES_LOCATION_COPY" :> <<>>, "IMAGES_LOCATION_COPY" :> ImagesDir}}

\* os.getenv(name, default); None is modelled as the empty text
Getenv(name, default) == IF name \in DOMAIN environ THEN environ[name] ELSE default

----------------------------------------------------------------------------
(* Responses                                                               *)

NoResponse == [status |-> 0]
\* jsonify(body), status
Json(status, body) == [status |-> status, body |-> body]
\* '', 302, {'Location': url}
Redirect(url) == [status |-> 302, body |-> <<>>, Location |-> url]

TypeErrorMsg == "argument of type 'int' is not iterable"
AttributeErrorMsg == "'list' object has no attribute 'get'"
BinasciiErrorMsg == "Incorrect padding"
UnicodeErrorMsg == "'utf-8' codec can't decode byte 0xff in position 0: invalid start byte"

\* return ... : the handler ends with this response
Return(w, resp) ==
    /\ response' = [response EXCEPT ![w] = resp]
    /\ pc' = [pc EXCEPT ![w] = "done"]

\* variant: the handler hides the exception's message
RaiseGeneric(w, msg) == Return(w, Json(500, [error |-> "Internal Server Error"]))

\* except Exception as e: return jsonify({'error': str(e)}), 500
Raise(w, msg) == Return(w, Json(500, [error |-> msg]))

----------------------------------------------------------------------------
(* decode_barcode                                                          *)

\* barcode.data.decode('utf-8') raises on the first symbol
DecodeBarcodeRaises(img, variant) ==
    LET barcodes == Detect(img, variant)
    IN barcodes # <<>> /\ ~Utf8Valid(barcodes[1].data)

\* variant: the failure result carries empty data and type fields
decode_barcodeWithEmptyFields(img, variant) ==
    LET barcodes == Detect(img, variant)
    IN IF barcodes # <<>>
       THEN [data |-> Utf8Decode(barcodes[1].data), type |-> barcodes[1].type,
             success |-> TRUE]
       ELSE [data |-> <<>>, type |-> "", success |-> FALSE]

\* the value decode_barcode returns
decode_barcode(img, variant) ==
    LET barcodes == Detect(img, variant)
    IN IF barcodes # <<>>
       THEN [data |-> Utf8Decode(barcodes[1].data), type |-> barcodes[1].type,
             success |-> TRUE]
       ELSE [success |-> FALSE]

----------------------------------------------------------------------------
(* The redirect URL                                                        *)

RedirectUrl(template, code, scheme, host) ==
    Replace(Replace(Replace(template, CodePlaceholder, code),
                    ProtocolPlaceholder, scheme),
            HostPlaceholder, host)

----------------------------------------------------------------------------
(* State                                                                   *)

InitWorkers ==
    /\ clock = 1
    /\ req = [w \in Workers |-> NoRequest]
    /\ pc = [w \in Workers |-> "idle"]
    /\ should_redirect = [w \in Workers |-> FALSE]
    /\ image_data = [w \in Workers |-> <<>>]
    /\ image = [w \in Workers |-> NoSymbols]
    /\ timestamp = [w \in Workers |-> 0]
    /\ cnt = [w \in Workers |-> 0]
    /\ scan_idx = [w \in Workers |-> 0]
    /\ result = [w \in Workers |-> [success |-> FALSE]]
    /\ calls = [w \in Workers |-> <<>>]
    /\ persist_error = [w \in Workers |-> FALSE]
    /\ response = [w \in Workers |-> NoResponse]
    /\ files = {}
    /\ written = [w \in Workers |-> {}]

\* one request, any body, any configuration
Init ==
    /\ environ \in Environs
    /\ \E r \in Requests : pending = <<r>>
    /\ InitWorkers

\* one request for each worker, persistence configured or not
InitConc ==
    /\ environ \in {NoEnv, "IMAGES_LOCATION_COPY" :> ImagesDir}
    /\ pending \in [Workers -> ConcRequests]
    /\ InitWorkers

----------------------------------------------------------------------------
(* Actions                                                                 *)

\* the microsecond clock advances
Tick ==
    /\ clock < MaxClock
    /\ clock' = clock + 1
    /\ UNCHANGED <<environ, pending, req, pc, should_redirect, image_data, image,
                   timestamp, cnt, scan_idx, result, calls, persist_error, response,
                   files, written>>

\* a worker takes the next connection
Accept(w) ==
    /\ pc[w] = "idle"
    /\ pending # <<>>
    /\ req' = [req EXCEPT ![w] = Head(pending)]
    /\ pending' = Tail(pending)
    /\ pc' = [pc EXCEPT ![w] = "decode"]
    /\ UNCHANGED <<environ, clock, should_redirect, image_data, image, timestamp, cnt,
                   scan_idx, result, calls, persist_error, response, files, written>>

\* variant: the decode loop runs over the whole of images_to_scan
ScanFromOriginal == 2 - 1

\* the index in images_to_scan the decode loop starts from: images_to_scan[1:]
ScanFrom == 2

\* lines 46-93: parse the body, strip the prefix, decode base64 and the raster
DecodeRequest(w) ==
    /\ pc[w] = "decode"
    /\ LET data == req[w].body
       IN IF Falsy(data)
          THEN /\ Return(w, Json(400, [error |-> "No image data provided"]))
               /\ UNCHANGED <<should_redirect, image_data, image>>
          ELSE IF InRaises(data)
          THEN /\ Raise(w, TypeErrorMsg)
               /\ UNCHANGED <<should_redirect, image_data, image>>
          ELSE IF ~HasImage(data)
          THEN /\ Return(w, Json(400, [error |-> "No image data provided"]))
               /\ UNCHANGED <<should_redirect, image_data, image>>
          ELSE IF data.kind # "object"
          THEN /\ Raise(w, AttributeErrorMsg)
               /\ UNCHANGED <<should_redirect, image_data, image>>
          ELSE LET payload == ImageData(data.val.image)
               IN /\ should_redirect' = [should_redirect EXCEPT ![w] = GetRedirect(data)]
                  /\ image_data' = [image_data EXCEPT ![w] = payload]
                  /\ IF ~B64Valid(payload)
                     THEN Raise(w, BinasciiErrorMsg) /\ UNCHANGED image
                     ELSE IF ~IsImage(B64Decode(payload))
                     THEN /\ Return(w, Json(400, [error |-> "Invalid image data"]))
                          /\ UNCHANGED image
                     ELSE /\ image' = [image EXCEPT ![w] = Imdecode(B64Decode(payload))]
                          /\ pc' = [pc EXCEPT ![w] = "persist"]
                          /\ UNCHANGED response
    /\ UNCHANGED <<environ, clock, pending, req, timestamp, cnt, scan_idx, result,
                   calls, persist_error, files, written>>

\* lines 114-115: result = {'success': False}; the loop starts after the original
EnterScan(w) ==
    /\ pc' = [pc EXCEPT ![w] = "scan"]
    /\ result' = [result EXCEPT ![w] = [success |-> FALSE]]
    /\ scan_idx' = [scan_idx EXCEPT ![w] = ScanFrom]

\* variant: the persister has no try block of its own
PersistFailedPropagates(w) ==
    /\ persist_error' = [persist_error EXCEPT ![w] = TRUE]
    /\ Raise(w, "[Errno 28] No space left on device")
    /\ UNCHANGED <<result, scan_idx>>

\* except Exception as e: print(...) -- the request goes on
PersistFailed(w) ==
    /\ persist_error' = [persist_error EXCEPT ![w] = TRUE]
    /\ EnterScan(w)
    /\ UNCHANGED response

\* lines 96-103: read the directory, create it, read the clock
PersistStart(w) ==
    /\ pc[w] = "persist"
    /\ IF Len(Getenv("IMAGES_LOCATION_COPY", <<>>)) = 0
       THEN /\ EnterScan(w)
            /\ UNCHANGED <<timestamp, cnt, persist_error, response>>
       ELSE \/ /\ timestamp' = [timestamp EXCEPT ![w] = clock]
               /\ cnt' = [cnt EXCEPT ![w] = 1]
               /\ pc' = [pc EXCEPT ![w] = "write"]
               /\ UNCHANGED <<result, scan_idx, persist_error, response>>
            \/ \* os.makedirs raises
               /\ PersistFailed(w)
               /\ UNCHANGED <<timestamp, cnt>>
    /\ UNCHANGED <<environ, clock, pending, req, should_redirect, image_data, image,
                   calls, files, written>>

\* variant: the name carries no timestamp
FilenameWithoutTimestamp(ts, n, img_type) == <<"scan", 0, n, img_type, "jpg">>

\* f'scan_{timestamp}_{cnt}_{img_type}.jpg'
Filename(ts, n, img_type) == <<"scan", ts, n, img_type, "jpg">>

\* lines 104-108: one pass of the save loop
WriteImage(w) ==
    /\ pc[w] = "write"
    /\ LET filename == Filename(timestamp[w], cnt[w], images_to_scan[cnt[w]])
       IN \/ /\ files' = {f \in files : f.name # filename}
                            \cup {[name |-> filename, owner |-> w]}
             /\ written' = [written EXCEPT ![w] = @ \cup {filename}]
             /\ cnt' = [cnt EXCEPT ![w] = @ + 1]
             /\ IF cnt[w] = Len(images_to_scan)
                THEN EnterScan(w)
                ELSE UNCHANGED <<pc, result, scan_idx>>
             /\ UNCHANGED <<persist_error, response>>
          \/ \* cv2.imwrite raises
             /\ PersistFailed(w)
             /\ UNCHANGED <<files, written, cnt>>
    /\ UNCHANGED <<environ, clock, pending, req, should_redirect, image_data, image,
                   timestamp, calls>>

\* lines 115-119: one pass of the decode loop
ScanVariant(w) ==
    /\ pc[w] = "scan"
    /\ LET img_type == images_to_scan[scan_idx[w]]
       IN /\ calls' = [calls EXCEPT ![w] = Append(@, img_type)]
          /\ IF DecodeBarcodeRaises(image[w], img_type)
             THEN Raise(w, UnicodeErrorMsg) /\ UNCHANGED <<result, scan_idx>>
             ELSE LET r == decode_barcode(image[w], img_type)
                  IN /\ result' = [result EXCEPT ![w] = r]
                     /\ UNCHANGED response
                     /\ IF r.success
                        THEN /\ pc' = [pc EXCEPT ![w] = "respond"]
                             /\ UNCHANGED scan_idx
                        ELSE /\ scan_idx' = [scan_idx EXCEPT ![w] = @ + 1]
                             /\ pc' = [pc EXCEPT ![w] =
                                         IF scan_idx[w] = Len(images_to_scan)
                                         THEN "respond" ELSE "scan"]
    /\ UNCHANGED <<environ, clock, pending, req, should_redirect, image_data, image,
                   timestamp, cnt, persist_error, files, written>>

\* variant: every successful decode redirects, whatever the flag
RespondIgnoringFlag(w) ==
    /\ pc[w] = "respond"
    /\ IF result[w].success
       THEN Return(w, Redirect(RedirectUrl(Getenv("REDIRECT_URL", DefaultRedirectUrl),
                                           result[w].data, req[w].scheme, req[w].host)))
       ELSE Return(w, Json(200, result[w]))
    /\ UNCHANGED <<environ, clock, pending, req, should_redirect, image_data, image,
                   timestamp, cnt, scan_idx, result, calls, persist_error, files, written>>

\* lines 122-132: redirect, or the result as JSON
Respond(w) ==
    /\ pc[w] = "respond"
    /\ IF should_redirect[w] /\ result[w].success
       THEN Return(w, Redirect(RedirectUrl(Getenv("REDIRECT_URL", DefaultRedirectUrl),
                                           result[w].data, req[w].scheme, req[w].host)))
       ELSE Return(w, Json(200, result[w]))
    /\ UNCHANGED <<environ, clock, pending, req, should_redirect, image_data, image,
                   timestamp, cnt, scan_idx, result, calls, persist_error, files, written>>

Next ==
    \/ Tick
    \/ \E w \in Workers :
          \/ Accept(w)
          \/ DecodeRequest(w)
          \/ PersistStart(w)
          \/ WriteImage(w)
          \/ ScanVariant(w)
          \/ Respond(w)

Spec == Init /\ [][Next]_vars

SpecConc == InitConc /\ [][Next]_vars

----------------------------------------------------------------------------
(* Vocabulary of the properties                                            *)

Done(w) == pc[w] = "done"
\* the decode loop made at least one decoder call
ReachedLoop(w) == Len(calls[w]) > 0
\* the body is a JSON object with an `image` key
HasImageKey(body) == body.kind = "object" /\ "image" \in DOMAIN body.val
\* the picture a request carries, when its payload decodes
PictureOf(r) == Imdecode(B64Decode(ImageData(r.body.val.image)))

\* the order the specification fixes for the decode attempts
ScanOrder == <<"gray", "blurred", "adaptive_thresh", "sharpened">>
Hits(img) == {i \in 1..Len(ScanOrder) : Detect(img, ScanOrder[i]) # <<>>}
FirstHit(img) == CHOOSE i \in Hits(img) : \A j \in Hits(img) : i <= j
\* some decoder call of the request raised on a symbol's payload
LoopRaised(w) == \E i \in 1..Len(calls[w]) : DecodeBarcodeRaises(image[w], calls[w][i])

\* everything after the first comma of s, or s when it has none
AfterFirstComma(s) ==
    IF ~HasComma(s) THEN s
    ELSE LET i == CHOOSE j \in 1..Len(s) : s[j] = Comma /\ \A m \in 1..(j - 1) : s[m] # Comma
         IN SubSeq(s, i + 1, Len(s))

\* one left-to-right pass over the template: each placeholder is replaced by
\* its value and substituted text is not read again
RECURSIVE Substitute(_, _, _, _)
Substitute(t, code, scheme, host) ==
    LET At(ph) == Len(t) >= Len(ph) /\ SubSeq(t, 1, Len(ph)) = ph
        Rest(ph) == Substitute(SubSeq(t, Len(ph) + 1, Len(t)), code, scheme, host)
    IN IF t = <<>> THEN <<>>
       ELSE IF At(CodePlaceholder) THEN code \o Rest(CodePlaceholder)
       ELSE IF At(ProtocolPlaceholder) THEN scheme \o Rest(ProtocolPlaceholder)
       ELSE IF At(HostPlaceholder) THEN host \o Rest(HostPlaceholder)
       ELSE <<Head(t)>> \o Substitute(Tail(t), code, scheme, host)

\* the response of a request whose picture decoded, from the request and the
\* redirect template alone
ExpectedResponse(r) ==
    LET img == PictureOf(r)
        hit == Detect(img, ScanOrder[FirstHit(img)])[1]
    IN IF Hits(img) = {} THEN Json(200, [success |-> FALSE])
       ELSE IF ~Utf8Valid(hit.data) THEN Json(500, [error |-> UnicodeErrorMsg])
       ELSE IF GetRedirect(r.body)
            THEN Redirect(RedirectUrl(Getenv("REDIRECT_URL", DefaultRedirectUrl),
                                      Utf8Decode(hit.data), r.scheme, r.host))
            ELSE Json(200, [data |-> Utf8Decode(hit.data), type |-> hit.type,
                            success |-> TRUE])

\* the exception, if any, that escapes to the handler's outer `except`
Thrown(w) ==
    LET body == req[w].body
    IN IF Falsy(body) THEN ""
       ELSE IF body.kind = "number" THEN TypeErrorMsg
       ELSE IF body.kind = "array"
            THEN (IF HasImage(body) THEN AttributeErrorMsg ELSE "")
       ELSE IF ~HasImageKey(body) THEN ""
       ELSE IF ~B64Valid(ImageData(body.val.image)) THEN BinasciiErrorMsg
       ELSE IF LoopRaised(w) THEN UnicodeErrorMsg
       ELSE ""

----------------------------------------------------------------------------
(* Properties                                                              *)

\* C1 (as stated): a request whose payload cannot be decoded -- malformed
\* base64, or bytes that are no raster image -- is answered 400 with an
\* `error` body, never 200, 302 or 500.
C1_UndecodablePayloadIs400 ==
    \A w \in Workers :
        (/\ Done(w)
         /\ HasImageKey(req[w].body)
         /\ \/ ~B64Valid(image_data[w])
            \/ ~IsImage(B64Decode(image_data[w])))
        => /\ response[w].status = 400
           /\ "error" \in DOMAIN response[w].body

\* C2 (as stated): the payload that is decoded is everything after the first
\* comma of `image` (the whole remainder), and the whole string when it has
\* no comma.
C2_PayloadIsRestAfterFirstComma ==
    \A w \in Workers :
        (pc[w] \notin {"idle", "decode"} /\ HasImageKey(req[w].body))
        => image_data[w] = AfterFirstComma(req[w].body.val.image)

\* C3 (as stated): a 302 response has an empty body and a Location equal to
\* the template with {code}, {protocol}, {host} replaced by the decoded
\* payload, the scheme and the host, the payload appearing verbatim; for the
\* template http://x/{code} the Location is http://x/<decoded value>.
C3_LocationHasPayloadVerbatim ==
    \A w \in Workers :
        (Done(w) /\ response[w].status = 302)
        => /\ response[w].body = <<>>
           /\ response[w].Location =
                 Substitute(Getenv("REDIRECT_URL", DefaultRedirectUrl), result[w].data,
                            req[w].scheme, req[w].host)
           /\ Getenv("REDIRECT_URL", DefaultRedirectUrl) = XTemplate
              => response[w].Location =
                    <<"h", "t", "t", "p", ":", "/", "/", "x", "/">> \o result[w].data

\* C4 (as stated): a request that reaches the decode loop is answered 302
\* exactly when the redirect flag is set and the decode succeeded, and in
\* every other case 200 with the ScanResult as body.
C4_RedirectOrJson200 ==
    \A w \in Workers :
        (Done(w) /\ ReachedLoop(w))
        => IF should_redirect[w] /\ result[w].success
           THEN response[w].status = 302
           ELSE response[w] = Json(200, result[w])

\* C4 (amended): a request that reaches the decode loop and whose loop ends
\* without an exception is answered 302 exactly when the redirect flag is set
\* and the decode succeeded, and otherwise 200 with the ScanResult as body; a
\* request whose loop raises is answered 500 and neither 302 nor 200.
C4_RedirectOrJson200UnlessRaised ==
    \A w \in Workers :
        (Done(w) /\ ReachedLoop(w))
        => IF LoopRaised(w)
           THEN response[w].status = 500
           ELSE IF GetRedirect(req[w].body) /\ Hits(image[w]) # {}
           THEN response[w].status = 302 /\ result[w].success
           ELSE response[w] = Json(200, result[w])

C4_Witness ==
    \E w \in Workers :
        /\ Done(w) /\ ReachedLoop(w)
        /\ GetRedirect(req[w].body)
        /\ response[w].status = 302

\* C5: the decoder is called on gray, blurred, adaptive_thresh, sharpened in
\* this order and on nothing after the first variant that yields a symbol;
\* the original is never passed; a reported success is the first symbol of
\* the earliest variant that yields one.
C5_FixedOrderFirstSuccess ==
    \A w \in Workers :
        /\ Len(calls[w]) <= Len(ScanOrder)
        /\ \A i \in 1..Len(calls[w]) :
              /\ calls[w][i] = ScanOrder[i]
              /\ calls[w][i] # "original"
              /\ i < Len(calls[w]) => Detect(image[w], calls[w][i]) = <<>>
        /\ (pc[w] \in {"respond", "done"} /\ ReachedLoop(w) /\ result[w].success)
           => LET first == Detect(image[w], ScanOrder[FirstHit(image[w])])[1]
              IN /\ Len(calls[w]) = FirstHit(image[w])
                 /\ result[w].data = Utf8Decode(first.data)
                 /\ result[w].type = first.type
        /\ (Done(w) /\ response[w].status = 200 /\ ReachedLoop(w))
           => response[w].body = result[w]

C5_Witness ==
    \E w \in Workers :
        /\ Done(w)
        /\ response[w].status = 200
        /\ result[w].success
        /\ calls[w] = <<"gray", "blurred">>
        /\ Len(Detect(image[w], "blurred")) = 2
        /\ Detect(image[w], "sharpened") = <<SymA>>
        /\ result[w].type = "EAN13"

\* C6 (as stated): a request whose body has no `image` key, or is no JSON
\* object at all, is answered 400 with an `error` body before any base64
\* decoding, image decoding, decoder call or debug image write.
C6_NoImageKeyIs400 ==
    \A w \in Workers :
        (Done(w) /\ ~HasImageKey(req[w].body))
        => /\ response[w].status = 400
           /\ "error" \in DOMAIN response[w].body
           /\ image_data[w] = <<>>
           /\ calls[w] = <<>>
           /\ written[w] = {}

\* C7: a failure of the debug persister is swallowed: the request that met
\* it gets the response the same request gets without persistence, and its
\* decode loop still runs.
C7_PersistFailureIgnored ==
    \A w \in Workers :
        /\ (persist_error[w] /\ pc[w] # "persist" /\ pc[w] # "write")
           => (ReachedLoop(w) \/ pc[w] = "scan")
        /\ (Done(w) /\ persist_error[w])
           => /\ response[w] = ExpectedResponse(req[w])
              /\ ReachedLoop(w)

C7_Witness ==
    \E w \in Workers :
        /\ Done(w)
        /\ persist_error[w]
        /\ Cardinality(written[w]) = 2
        /\ response[w].status = 302

C9_AnyOtherFailureIs500 ==
    \A w \in Workers :
        (/\ Done(w)
         /\ HasImageKey(req[w].body)
         /\ B64Valid(image_data[w]) /\ IsImage(B64Decode(image_data[w]))
         /\ (persist_error[w] \/ LoopRaised(w)))
        => /\ response[w].status = 500
           /\ "error" \in DOMAIN response[w].body

\* C9 (amended): any exception raised during a request outside the debug
\* persister ends the request with 500 and a body whose `error` is the
\* exception's message, never 200 or 302; a failure inside the debug
\* persister is swallowed and does not end the request.
C9_EscapedExceptionIs500 ==
    \A w \in Workers :
        /\ (Done(w) /\ Thrown(w) # "")
           => response[w] = Json(500, [error |-> Thrown(w)])
        /\ (Done(w) /\ Thrown(w) = "") => response[w].status \in {200, 302, 400}
        /\ Done(w) <=> response[w] # NoResponse

C9_Witness ==
    \E w \in Workers :
        /\ Done(w)
        /\ LoopRaised(w)
        /\ Len(calls[w]) = 3
        /\ response[w] = Json(500, [error |-> UnicodeErrorMsg])

\* C10: under every interleaving of the workers, requests with the same
\* input get the same response; a request writes only the five names made of
\* its timestamp, the index 1..5 and the variant; two requests with the same
\* timestamp write the same names and the later write replaces the earlier
\* file; requests with different timestamps write no common name.
C10_InterferenceOnlyOnFiles ==
    \A w1, w2 \in Workers :
        /\ written[w1] \subseteq
              {<<"scan", timestamp[w1], i, images_to_scan[i], "jpg">> :
                  i \in 1..Len(images_to_scan)}
        /\ \A f \in files : \A g \in files : f.name = g.name => f = g
        /\ {f.name : f \in files} = UNION {written[w] : w \in Workers}
        /\ (Done(w1) /\ Done(w2) /\ req[w1] = req[w2]) => response[w1] = response[w2]
        /\ w1 # w2 =>
              /\ timestamp[w1] # timestamp[w2] => written[w1] \cap written[w2] = {}
              /\ (/\ timestamp[w1] = timestamp[w2]
                  /\ Cardinality(written[w1]) = Len(images_to_scan)
                  /\ Cardinality(written[w2]) = Len(images_to_scan))
                 => written[w1] = written[w2]

C10_Witness ==
    \E w1, w2 \in Workers :
        /\ w1 # w2
        /\ Done(w1) /\ Done(w2)
        /\ timestamp[w1] = timestamp[w2]
        /\ Cardinality(written[w1]) = Len(images_to_scan)
        /\ written[w1] = written[w2]
        /\ \E f \in files : f.owner = w1
        /\ \E f \in files : f.owner = w2

====
